---- MODULE Spec2Model ----
(***************************************************************************)
(* Bookings, analytics, incidents and users of the test-environment        *)
(* dashboard.                                                              *)
(*                                                                         *)
(* The model covers the tables, the storage functions and the route        *)
(* handlers that read and write them, and the booking form of the client.  *)
(* Timestamps are integers (instants on one time line); a request is the   *)
(* parsed JSON body reduced to the fields the handlers read.               *)
(*                                                                         *)
(* The specifications share the definitions:                               *)
(*   Spec             concurrent POST /api/bookings; a handler is split at *)
(*                    its awaits (the conflict query, then the insert)     *)
(*   SpecSerial       every request runs to completion before the next     *)
(*   SpecResolver     checkBookingConflicts called on a table of one row   *)
(*   SpecAnalytics    one call of an analytics function on a filled table  *)
(*   SpecMetrics      POST /api/metrics, then the health analytics         *)
(*   SpecDailyStatus  POST /api/daily-status, then the green-day analytics *)
(*   SpecBookings     POST, PATCH and DELETE of bookings, one at a time    *)
(*   SpecScheduled    POST as the form sends it and DELETE, one at a time  *)
(*   SpecPatch        one PATCH with any body on a table of posted rows    *)
(*   SpecListing      POST /api/bookings, then one call of getBookings     *)
(*   SpecIncidents    the incident routes, one request at a time           *)
(*   SpecResolveRace  concurrent resolve requests, split at their awaits   *)
(*   SpecUsers        concurrent POST /api/users, split at the insert      *)
(*   SpecForm         one submission of the booking form                   *)
(***************************************************************************)
EXTENDS Integers, FiniteSets, Sequences, TLC

\* ---- bounds ----
MaxDay == 3
NumEnvs == 2
MaxBookings == 2
MaxClients == 2
MaxRaceDay == 2
MaxRecords == 3
MaxRecordDay == 2
MaxCrudDay == 1
MaxIds == 3
MaxSchedDay == 4
MaxIncidents == 2
MaxStart == 2
MaxNow == 6

\* instants of the clock in one minute (a minute has 60000 milliseconds)
TicksPerMinute == 4
MaxFormDay == 3
MaxOffset == 1
MaxUsers == 2

\* instants of the form's clock in one day (a day has 86400000 milliseconds)
TicksPerDay == 4

\* significant bits of a number (binary64 has 53)
MantissaBits == 9

Instants == 1..MaxDay
EnvironmentIds == 1..NumEnvs
Clients == 1..MaxClients

\* ---- schema ----

\* the four values bookingsInsertSchema accepts for status
BookingStatuses == {"scheduled", "active", "completed", "cancelled"}

\* a body without a status key
Absent == "absent"

\* a status string outside the enum; stands for every body zod rejects
Malformed == "other"

\* status: text("status").notNull().default("scheduled")
DefaultStatus == "scheduled"

\* the team and the user of every request (the form sends userId: 1)
DemoTeam == 1

DemoUser == 1

\* the configuration and the purpose the form starts with
StandardConfiguration == "Standard Configuration"

NoPurpose == ""

\* request bodies of POST /api/bookings with dates up to maxDay
BodiesUpTo(maxDay) ==
  [environmentId : EnvironmentIds, startDate : 1..maxDay, endDate : 1..maxDay,
   status : BookingStatuses \cup {Absent, Malformed},
   teamId : {DemoTeam}, userId : {DemoUser},
   configuration : {StandardConfiguration}, purpose : {NoPurpose}]

Bodies == BodiesUpTo(MaxDay)

\* the bodies of the concurrent specification (a shorter time line)
RaceBodies == BodiesUpTo(MaxRaceDay)

\* rows of the bookings table
Rows(ids) ==
  [id : ids, environmentId : EnvironmentIds, startDate : Instants,
   endDate : Instants, status : BookingStatuses,
   teamId : {DemoTeam}, userId : {DemoUser},
   configuration : {StandardConfiguration}, purpose : {NoPurpose}]

VARIABLES
  bookings,   \* the bookings table: a set of rows
  nextId,     \* the serial sequence behind bookings.id
  client,     \* per client: the request in flight or the last response
  chk,        \* the last direct call of checkBookingConflicts and its result
  metrics,    \* the metrics table: a set of rows
  dailyStatus,\* the daily_status table: a set of rows
  ana,        \* the last call of an analytics function and its result
  req,        \* the last request of the booking routes, as it arrived
  lst,        \* the last call of getBookings and its result
  incidents,  \* the incidents table: a set of rows
  now,        \* the clock new Date() reads
  users,      \* the users table: a set of rows
  form        \* the booking form: its values and what its submission did

vars == <<bookings, nextId, client, chk, metrics, dailyStatus, ana, req,
          lst, incidents, now, users, form>>

\* the listing, the incidents, the clock, the users and the form
others == <<lst, incidents, now, users, form>>

\* the tables and observations the booking handlers never touch
analytics == <<metrics, dailyStatus, ana>>

\* ---- bookingsInsertSchema.parse ----

\* status is optional (the column has a default) and otherwise refined to the enum
bookingsInsertSchema(body) == body.status \in BookingStatuses \cup {Absent}

\* ---- storage.checkBookingConflicts ----

OverlapCasesNoSurround(startDate, endDate, bStart, bEnd) ==
  \/ (startDate >= bStart /\ startDate <= bEnd)
  \/ (endDate >= bStart /\ endDate <= bEnd)

OverlapCasesStrict(startDate, endDate, bStart, bEnd) ==
  \/ (startDate > bStart /\ startDate < bEnd)
  \/ (endDate > bStart /\ endDate < bEnd)
  \/ (startDate < bStart /\ endDate > bEnd)

OverlapCasesNoEnd(startDate, endDate, bStart, bEnd) ==
  \/ (startDate >= bStart /\ startDate <= bEnd)
  \/ (startDate <= bStart /\ endDate >= bEnd)

\* the or(...) of the where clause: the three cases, in source order
OverlapCases(startDate, endDate, bStart, bEnd) ==
  \/ (startDate >= bStart /\ startDate <= bEnd)
  \/ (endDate >= bStart /\ endDate <= bEnd)
  \/ (startDate <= bStart /\ endDate >= bEnd)

checkBookingConflictsAnyStatus(store, environmentId, startDate, endDate) ==
  {b \in store :
     /\ b.environmentId = environmentId
     /\ OverlapCases(startDate, endDate, b.startDate, b.endDate)}

checkBookingConflictsNone(store, environmentId, startDate, endDate) == {}

checkBookingConflicts(store, environmentId, startDate, endDate) ==
  {b \in store :
     /\ b.environmentId = environmentId
     /\ b.status = "scheduled"
     /\ OverlapCases(startDate, endDate, b.startDate, b.endDate)}

\* ---- storage.createBooking ----

\* the row the insert returns: serial id, column default for a missing status
NewBooking(data, id) ==
  [id |-> id, environmentId |-> data.environmentId,
   startDate |-> data.startDate, endDate |-> data.endDate,
   status |-> IF data.status = Absent THEN DefaultStatus ELSE data.status,
   teamId |-> data.teamId, userId |-> data.userId,
   configuration |-> data.configuration, purpose |-> data.purpose]

createBookingGuarded(store, data, id) ==
  IF checkBookingConflicts(store, data.environmentId, data.startDate, data.endDate) = {}
    THEN store \cup {NewBooking(data, id)}
    ELSE store

createBooking(store, data, id) == store \cup {NewBooking(data, id)}

\* ---- POST /api/bookings ----

ConflictDetectedMany(conflicts) == Cardinality(conflicts) > 1

\* if (conflicts.length > 0)
ConflictDetected(conflicts) == Cardinality(conflicts) > 0

\* a body without any key: 0 and Absent stand for a missing key
NoData ==
  [environmentId |-> 0, startDate |-> 0, endDate |-> 0, status |-> Absent,
   teamId |-> 0, userId |-> 0, configuration |-> Absent, purpose |-> Absent]

Idle == [pc |-> "idle", data |-> NoData, code |-> 0, body |-> {}]

Response(code, body) == [pc |-> "done", data |-> NoData, code |-> code, body |-> body]

\* the handler up to its second await: parse, conflict query, 409 branch.
\* dbOk = FALSE is a rejected storage call (caught, answered 500).
AfterCheck(store, body, dbOk) ==
  IF ~bookingsInsertSchema(body) THEN Response(400, {})
  ELSE IF ~dbOk THEN Response(500, {})
  ELSE LET conflicts == checkBookingConflicts(store, body.environmentId,
                                              body.startDate, body.endDate)
       IN IF ConflictDetected(conflicts)
            THEN [Response(409, conflicts) EXCEPT !.data = body]
            ELSE [pc |-> "create", data |-> body, code |-> 0, body |-> {}]

AfterCreateUnchecked(data, id, dbOk) == Response(201, {NewBooking(data, id)})

\* the rest of the handler: the insert and the 201 answer
AfterCreate(data, id, dbOk) ==
  IF ~dbOk THEN Response(500, {})
  ELSE Response(201, {NewBooking(data, id)})

\* rows stored or about to be stored; bounds the table
Pending == Cardinality({c \in Clients : client[c].pc = "create"})

HasRoom == Cardinality(bookings) + Pending < MaxBookings

\* a request arrives at client c's connection and runs to the await of the insert
BeginPost(c, body, dbOk) ==
  /\ client[c].pc # "create"
  /\ HasRoom
  /\ client' = [client EXCEPT ![c] = AfterCheck(bookings, body, dbOk)]
  /\ UNCHANGED <<bookings, nextId, chk, analytics, req, others>>

\* the insert of client c's request and its answer
FinishPost(c, dbOk) ==
  /\ client[c].pc = "create"
  /\ client' = [client EXCEPT ![c] = AfterCreate(client[c].data, nextId, dbOk)]
  /\ bookings' = IF dbOk THEN createBooking(bookings, client[c].data, nextId)
                         ELSE bookings
  /\ nextId' = IF dbOk THEN nextId + 1 ELSE nextId
  /\ UNCHANGED <<chk, analytics, req, others>>

\* no direct resolver call since the table last changed
NoCall == [called |-> FALSE, environmentId |-> 0, startDate |-> 0, endDate |-> 0,
           result |-> {}]

\* the handler from parse to answer, both storage calls included
HandlePost(body, dbOk1, dbOk2) ==
  LET r == AfterCheck(bookings, body, dbOk1)
  IN IF r.pc = "create"
       THEN /\ client' = [client EXCEPT ![1] = AfterCreate(body, nextId, dbOk2)]
            /\ bookings' = IF dbOk2 THEN createBooking(bookings, body, nextId)
                                    ELSE bookings
            /\ nextId' = IF dbOk2 THEN nextId + 1 ELSE nextId
       ELSE /\ client' = [client EXCEPT ![1] = r]
            /\ UNCHANGED <<bookings, nextId>>

\* the whole handler with no other request in between
PostBookings(body, dbOk1, dbOk2) ==
  /\ Cardinality(bookings) < MaxBookings
  /\ HandlePost(body, dbOk1, dbOk2)
  /\ chk' = NoCall
  /\ UNCHANGED <<analytics, req, others>>

\* ---- requests of the booking routes ----

\* the characters of an :id path parameter: decimal digits and a letter
Digits == <<"1", "2", "3", "4", "5", "6", "7", "8", "9">>

IdChars == {Digits[d] : d \in 1..MaxIds} \cup {"x"}

\* path parameters of one or two characters
IdParams == {<<c>> : c \in IdChars} \cup {<<c, d>> : c \in IdChars, d \in IdChars}

IsDigit(c) == \E d \in DOMAIN Digits : Digits[d] = c

DigitValue(c) == CHOOSE d \in DOMAIN Digits : Digits[d] = c

RECURSIVE LeadingDigits(_)
\* the longest prefix of decimal digits
LeadingDigits(s) ==
  IF s = <<>> \/ ~IsDigit(Head(s)) THEN <<>>
  ELSE <<Head(s)>> \o LeadingDigits(Tail(s))

RECURSIVE DecimalValue(_)
DecimalValue(s) ==
  IF s = <<>> THEN 0
  ELSE 10 * DecimalValue(SubSeq(s, 1, Len(s) - 1)) + DigitValue(s[Len(s)])

\* parseInt(s): the value of the leading digits, whatever follows them; NaN
\* when the string does not start with a digit
parseInt(s) ==
  [isNaN |-> LeadingDigits(s) = <<>>, value |-> DecimalValue(LeadingDigits(s))]

\* the bodies of the requests: one instant, every environment and status
CrudBodies == BodiesUpTo(MaxCrudDay)

\* PATCH bodies, reduced to the status key
PatchBodies ==
  {[NoData EXCEPT !.status = st] : st \in BookingStatuses \cup {Absent, Malformed}}

\* fail: the storage call of the handler that rejects (0: none)
Requests ==
  [op : {"POST"}, id : {<<>>}, body : CrudBodies, fail : 0..2]
    \cup [op : {"PATCH"}, id : IdParams, body : PatchBodies, fail : 0..2]
    \cup [op : {"DELETE"}, id : IdParams, body : {NoData}, fail : 0..2]

\* POST bodies as the booking form sends them: status 'scheduled' and an end
\* after the start
ScheduledBodies ==
  {body \in BodiesUpTo(MaxSchedDay) :
     body.status = "scheduled" /\ body.startDate < body.endDate}

ScheduledRequests ==
  [op : {"POST"}, id : {<<>>}, body : ScheduledBodies, fail : 0..2]
    \cup [op : {"DELETE"}, id : IdParams, body : {NoData}, fail : 0..2]

\* values a PATCH body can carry for the columns of a booking
OtherConfiguration == "Custom Configuration"

OtherPurpose == "regression"

\* the keys the schema of PATCH does not name, all present or all missing
ForeignKeys ==
  {[environmentId |-> 0, startDate |-> 0, endDate |-> 0, teamId |-> 0, userId |-> 0],
   [environmentId |-> NumEnvs, startDate |-> MaxCrudDay + 1, endDate |-> MaxCrudDay + 1,
    teamId |-> DemoTeam + 1, userId |-> DemoUser + 1]}

\* PATCH bodies with every key: status, configuration, purpose and the others
WidePatchBodies ==
  {[environmentId |-> k.environmentId, startDate |-> k.startDate,
    endDate |-> k.endDate, teamId |-> k.teamId, userId |-> k.userId,
    status |-> st, configuration |-> cf, purpose |-> pp] :
     k \in ForeignKeys, st \in BookingStatuses \cup {Absent, Malformed},
     cf \in {Absent, OtherConfiguration}, pp \in {Absent, OtherPurpose}}

WidePatchRequests ==
  [op : {"PATCH"}, id : IdParams, body : WidePatchBodies, fail : 0..2]

\* no request in flight
NoRequest == [op |-> "none", id |-> <<>>, body |-> NoData, fail |-> 0]

\* a request reaches the server; req holds it until its answer is sent
Arrive(request) ==
  /\ req = NoRequest
  /\ request.op = "POST" => Cardinality(bookings) < MaxBookings /\ nextId <= MaxIds
  /\ req' = request
  /\ UNCHANGED <<bookings, nextId, client, chk, analytics, others>>

\* the answer has been sent and the connection is free again
Close ==
  /\ client[1].pc = "done"
  /\ req' = NoRequest
  /\ client' = [client EXCEPT ![1] = Idle]
  /\ UNCHANGED <<bookings, nextId, chk, analytics, others>>

\* POST /api/bookings for the request in flight
HandlePostBookings ==
  /\ req.op = "POST"
  /\ client[1].pc = "idle"
  /\ HandlePost(req.body, req.fail # 1, req.fail # 2)
  /\ UNCHANGED <<req, chk, analytics, others>>

\* ---- storage.getBookingById, updateBooking, deleteBooking ----

\* the rows with the id: one or none
getBookingById(store, id) == {b \in store : b.id = id}

\* {...data}: every key of data replaces the column of that name
SetColumns(b, data) ==
  [id |-> b.id,
   environmentId |-> IF data.environmentId # 0 THEN data.environmentId
                                               ELSE b.environmentId,
   startDate |-> IF data.startDate # 0 THEN data.startDate ELSE b.startDate,
   endDate |-> IF data.endDate # 0 THEN data.endDate ELSE b.endDate,
   status |-> IF data.status # Absent THEN data.status ELSE b.status,
   teamId |-> IF data.teamId # 0 THEN data.teamId ELSE b.teamId,
   userId |-> IF data.userId # 0 THEN data.userId ELSE b.userId,
   configuration |-> IF data.configuration # Absent THEN data.configuration
                                                    ELSE b.configuration,
   purpose |-> IF data.purpose # Absent THEN data.purpose ELSE b.purpose]

\* update(bookings).set({...data, updatedAt}).where(eq(bookings.id, id))
updateBooking(store, id, data) ==
  {IF b.id = id THEN SetColumns(b, data) ELSE b : b \in store}

\* delete where id
deleteBooking(store, id) == {b \in store : b.id # id}

\* ---- storage.getBookings ----

\* the or(...) of the date range: the booking touches the range, or lies in it
InRange(b, startDate, endDate) ==
  \/ (b.startDate <= endDate /\ b.endDate >= startDate)
  \/ (b.startDate >= startDate /\ b.endDate <= endDate)

\* and(...conditions): a filter that is 0, undefined or '' adds no condition.
\* The joined team and environment of a booking exist (foreign keys), so the
\* inner joins drop no row; the order of the result is left out.
getBookings(store, environmentId, teamId, status, startDate, endDate) ==
  {b \in store :
     /\ environmentId # 0 => b.environmentId = environmentId
     /\ teamId # 0 => b.teamId = teamId
     /\ status # Absent => b.status = status
     /\ IF startDate # 0 /\ endDate # 0 THEN InRange(b, startDate, endDate)
        ELSE IF startDate # 0 THEN b.startDate >= startDate
        ELSE IF endDate # 0 THEN b.endDate <= endDate
        ELSE TRUE}

CallGetBookings(environmentId, teamId, status, startDate, endDate) ==
  /\ lst' = [called |-> TRUE, environmentId |-> environmentId, teamId |-> teamId,
             status |-> status, startDate |-> startDate, endDate |-> endDate,
             result |-> getBookings(bookings, environmentId, teamId, status,
                                    startDate, endDate)]
  /\ UNCHANGED <<bookings, nextId, client, chk, analytics, req,
                 incidents, now, users, form>>

\* ---- PATCH /api/bookings/:id ----

patchSchemaAny(body) == TRUE

\* z.object({status: z.enum([...]).optional(), ...}).parse(req.body) accepts
patchSchema(body) == body.status \in BookingStatuses \cup {Absent}

UpdateDataWhole(body) == body

\* what parse returns: z.object keeps the keys of its shape and strips every
\* other key of the body
UpdateData(body) ==
  [NoData EXCEPT !.status = body.status, !.configuration = body.configuration,
                 !.purpose = body.purpose]

HandlePatchBookings ==
  /\ req.op = "PATCH"
  /\ client[1].pc = "idle"
  /\ LET id == parseInt(req.id)
         booking == getBookingById(bookings, id.value)
     IN IF id.isNaN
          THEN /\ client' = [client EXCEPT ![1] = Response(400, {})]
               /\ UNCHANGED bookings
        ELSE IF req.fail = 1
          THEN /\ client' = [client EXCEPT ![1] = Response(500, {})]
               /\ UNCHANGED bookings
        ELSE IF booking = {}
          THEN /\ client' = [client EXCEPT ![1] = Response(404, {})]
               /\ UNCHANGED bookings
        ELSE IF ~patchSchema(req.body)
          THEN /\ client' = [client EXCEPT ![1] = Response(400, {})]
               /\ UNCHANGED bookings
        ELSE IF req.fail = 2
          THEN /\ client' = [client EXCEPT ![1] = Response(500, {})]
               /\ UNCHANGED bookings
        ELSE /\ bookings' = updateBooking(bookings, id.value, UpdateData(req.body))
             /\ client' = [client EXCEPT ![1] =
                  Response(200, getBookingById(bookings', id.value))]
  /\ UNCHANGED <<nextId, chk, analytics, req, others>>

\* ---- DELETE /api/bookings/:id ----

HandleDeleteBookings ==
  /\ req.op = "DELETE"
  /\ client[1].pc = "idle"
  /\ LET id == parseInt(req.id)
         booking == getBookingById(bookings, id.value)
     IN IF id.isNaN
          THEN /\ client' = [client EXCEPT ![1] = Response(400, {})]
               /\ UNCHANGED bookings
        ELSE IF req.fail = 1
          THEN /\ client' = [client EXCEPT ![1] = Response(500, {})]
               /\ UNCHANGED bookings
        ELSE IF booking = {}
          THEN /\ client' = [client EXCEPT ![1] = Response(404, {})]
               /\ UNCHANGED bookings
        ELSE IF req.fail = 2
          THEN /\ client' = [client EXCEPT ![1] = Response(500, {})]
               /\ UNCHANGED bookings
        ELSE /\ bookings' = deleteBooking(bookings, id.value)
             /\ client' = [client EXCEPT ![1] = Response(204, {})]
  /\ UNCHANGED <<nextId, chk, analytics, req, others>>

\* ---- JavaScript numbers ----

\* A number is m * 2^e kept as [m, e] with m odd (zero is [0, 0]).  Every
\* operation rounds its exact result to the nearest number with MantissaBits
\* significant bits, ties to the even significand, as IEEE-754 binary64 does
\* with 53 bits.

RECURSIVE BitLength(_)
BitLength(n) == IF n = 0 THEN 0 ELSE 1 + BitLength(n \div 2)

RECURSIVE Normalized(_, _)
Normalized(m, e) ==
  IF m = 0 THEN [m |-> 0, e |-> 0]
  ELSE IF m % 2 = 0 THEN Normalized(m \div 2, e + 1)
  ELSE [m |-> m, e |-> e]

\* the literal 0
Zero == [m |-> 0, e |-> 0]

AtLeastZero(x) == IF x > 0 THEN x ELSE 0

\* (num / den) * 2^e, rounded
RoundRatio(num, den, e) ==
  IF num = 0 THEN Zero
  ELSE LET t == AtLeastZero(MantissaBits + 2 + BitLength(den) - BitLength(num))
           scaled == num * 2^t
           quot == scaled \div den
           sticky == scaled % den # 0
           k == BitLength(quot) - MantissaBits
           q == quot \div 2^k
           r == quot % 2^k
           half == 2^(k - 1)
           up == r > half \/ (r = half /\ (sticky \/ q % 2 = 1))
       IN Normalized(IF up THEN q + 1 ELSE q, e - t + k)

\* an integer value (a count, an integer column)
FromInt(n) == RoundRatio(n, 1, 0)

\* Number(s) for the string of a decimal(5,2) column; the argument is the
\* column value in hundredths ("99.50" is 9950)
Number(hundredths) == RoundRatio(hundredths, 100, 0)

Smaller(x, y) == IF x < y THEN x ELSE y

\* a + b
FAdd(a, b) ==
  LET e0 == Smaller(a.e, b.e)
  IN RoundRatio(a.m * 2^(a.e - e0) + b.m * 2^(b.e - e0), 1, e0)

\* a / b, b not zero
FDiv(a, b) == RoundRatio(a.m, b.m, a.e - b.e)

\* a * b
FMul(a, b) == RoundRatio(a.m * b.m, 1, a.e + b.e)

\* ---- metrics and daily_status tables ----

RecordDates == 1..MaxRecordDay

\* an optional argument that was not supplied (undefined); also the value of
\* a missing environmentId, which the code tests by truthiness
Omitted == 0

Given(x) == x # Omitted

\* column values of three metric records: the decimal columns in hundredths
\* ("0.10", "98.00", "50.00"), the integer columns as they are
MetricSamples ==
  <<[uptime |-> 10, mttr |-> 1, mtbf |-> 10, resourceUtilization |-> 9800,
     occupancy |-> 5000],
    [uptime |-> 30, mttr |-> 2, mtbf |-> 20, resourceUtilization |-> 9900,
     occupancy |-> 2500],
    [uptime |-> 25, mttr |-> 3, mtbf |-> 60, resourceUtilization |-> 10000,
     occupancy |-> 7500]>>

\* the values dailyStatusInsertSchema accepts for status
DayStatuses == <<"healthy", "issues", "down">>

MetricRow(id, environmentId, date, v) ==
  [id |-> id, environmentId |-> environmentId, date |-> date,
   uptime |-> v.uptime, mttr |-> v.mttr, mtbf |-> v.mtbf,
   resourceUtilization |-> v.resourceUtilization, occupancy |-> v.occupancy]

\* a daily_status row, reduced to the columns the analytics read
DailyStatusRow(id, environmentId, date, status) ==
  [id |-> id, environmentId |-> environmentId, date |-> date, status |-> status]

\* ---- storage.getMetrics, storage.getDailyStatus ----

\* the condition of a where clause: 0 leaves a column unconstrained
NoWhere == [environmentId |-> Omitted, startDate |-> Omitted, endDate |-> Omitted]

EqEnvironment(environmentId) == [NoWhere EXCEPT !.environmentId = environmentId]

Gte(startDate) == [NoWhere EXCEPT !.startDate = startDate]

Lte(endDate) == [NoWhere EXCEPT !.endDate = endDate]

AndGteLte(startDate, endDate) ==
  [NoWhere EXCEPT !.startDate = startDate, !.endDate = endDate]

\* query.where(condition): the builder holds one where condition, and a
\* further call of where() replaces the condition set before
Where(query, condition) == condition

\* the condition the chain of if statements leaves in the query
BuildQuery(environmentId, startDate, endDate) ==
  LET q0 == NoWhere
      q1 == IF Given(environmentId) THEN Where(q0, EqEnvironment(environmentId))
                                    ELSE q0
  IN IF Given(startDate) /\ Given(endDate)
       THEN Where(q1, AndGteLte(startDate, endDate))
     ELSE IF Given(startDate) THEN Where(q1, Gte(startDate))
     ELSE IF Given(endDate) THEN Where(q1, Lte(endDate))
     ELSE q1

Satisfies(row, condition) ==
  /\ Given(condition.environmentId) => row.environmentId = condition.environmentId
  /\ Given(condition.startDate) => row.date >= condition.startDate
  /\ Given(condition.endDate) => row.date <= condition.endDate

\* the sequences that list every row of the set once
Listings(rows) ==
  {s \in [1..Cardinality(rows) -> rows] :
     \A i \in DOMAIN s, j \in DOMAIN s : i # j => s[i] # s[j]}

\* the rows getMetrics can return: orderBy(desc(date)), rows of one date in
\* any order
getMetrics(table, environmentId, startDate, endDate) ==
  {s \in Listings({row \in table :
                     Satisfies(row, BuildQuery(environmentId, startDate, endDate))}) :
     \A i \in DOMAIN s, j \in DOMAIN s : i < j => s[i].date >= s[j].date}

\* the rows getDailyStatus can return: orderBy(date), rows of one date in
\* any order
getDailyStatus(table, environmentId, startDate, endDate) ==
  {s \in Listings({row \in table :
                     Satisfies(row, BuildQuery(environmentId, startDate, endDate))}) :
     \A i \in DOMAIN s, j \in DOMAIN s : i < j => s[i].date <= s[j].date}

\* ---- storage.getEnvironmentHealthAnalytics ----

RECURSIVE ReduceSum(_, _)
\* values.reduce((sum, x) => sum + x, acc)
ReduceSum(values, acc) ==
  IF values = <<>> THEN acc
  ELSE ReduceSum(Tail(values), FAdd(acc, Head(values)))

AverageUndivided(values) == ReduceSum(values, Zero)

\* reduce(...) / length
Average(values) == FDiv(ReduceSum(values, Zero), FromInt(Len(values)))

ZeroHealthFull ==
  [averageUptime |-> FromInt(100), averageMTTR |-> Zero, averageMTBF |-> Zero,
   averageResourceUtilization |-> Zero, averageOccupancy |-> Zero]

ZeroHealth ==
  [averageUptime |-> Zero, averageMTTR |-> Zero, averageMTBF |-> Zero,
   averageResourceUtilization |-> Zero, averageOccupancy |-> Zero]

\* the function after its await: metricsData is what getMetrics returned
getEnvironmentHealthAnalytics(metricsData) ==
  IF Len(metricsData) = 0 THEN ZeroHealth
  ELSE [averageUptime |->
          Average([i \in DOMAIN metricsData |-> Number(metricsData[i].uptime)]),
        averageMTTR |->
          Average([i \in DOMAIN metricsData |-> FromInt(metricsData[i].mttr)]),
        averageMTBF |->
          Average([i \in DOMAIN metricsData |-> FromInt(metricsData[i].mtbf)]),
        averageResourceUtilization |->
          Average([i \in DOMAIN metricsData |->
                     Number(metricsData[i].resourceUtilization)]),
        averageOccupancy |->
          Average([i \in DOMAIN metricsData |-> Number(metricsData[i].occupancy)])]

\* ---- storage.getGreenDaysAnalytics ----

CountStatusOthers(statusData, status) ==
  Cardinality({i \in DOMAIN statusData : statusData[i].status # status})

\* statusData.filter(day => day.status === status).length
CountStatus(statusData, status) ==
  Cardinality({i \in DOMAIN statusData : statusData[i].status = status})

ZeroGreenDaysFull ==
  [totalDays |-> 0, greenDays |-> 0, yellowDays |-> 0, redDays |-> 0,
   greenDaysPercentage |-> FromInt(100)]

ZeroGreenDays ==
  [totalDays |-> 0, greenDays |-> 0, yellowDays |-> 0, redDays |-> 0,
   greenDaysPercentage |-> Zero]

\* the function after its await: statusData is what getDailyStatus returned
getGreenDaysAnalytics(statusData) ==
  IF Len(statusData) = 0 THEN ZeroGreenDays
  ELSE LET greenDays == CountStatus(statusData, "healthy")
           yellowDays == CountStatus(statusData, "issues")
           redDays == CountStatus(statusData, "down")
           totalDays == Len(statusData)
       IN [totalDays |-> totalDays, greenDays |-> greenDays,
           yellowDays |-> yellowDays, redDays |-> redDays,
           greenDaysPercentage |->
             FMul(FDiv(FromInt(greenDays), FromInt(totalDays)), FromInt(100))]

\* ---- calls of the analytics functions ----

NoAnalytics ==
  [fn |-> "none", environmentId |-> Omitted, startDate |-> Omitted,
   endDate |-> Omitted, rows |-> <<>>, result |-> ZeroHealth]

CallHealthAnalytics(environmentId, startDate, endDate) ==
  /\ \E metricsData \in getMetrics(metrics, environmentId, startDate, endDate) :
       ana' = [fn |-> "health", environmentId |-> environmentId,
               startDate |-> startDate, endDate |-> endDate,
               rows |-> metricsData,
               result |-> getEnvironmentHealthAnalytics(metricsData)]
  /\ chk' = NoCall
  /\ UNCHANGED <<bookings, nextId, client, metrics, dailyStatus, req, others>>

CallGreenDaysAnalyticsDraining(environmentId, startDate, endDate) ==
  /\ \E statusData \in getDailyStatus(dailyStatus, environmentId, startDate, endDate) :
       /\ ana' = [fn |-> "greenDays", environmentId |-> environmentId,
                  startDate |-> startDate, endDate |-> endDate,
                  rows |-> statusData,
                  result |-> getGreenDaysAnalytics(statusData)]
       /\ dailyStatus' = {row \in dailyStatus :
                            \A i \in DOMAIN statusData : statusData[i] # row}
  /\ chk' = NoCall
  /\ UNCHANGED <<bookings, nextId, client, metrics, req, others>>

CallGreenDaysAnalytics(environmentId, startDate, endDate) ==
  /\ \E statusData \in getDailyStatus(dailyStatus, environmentId, startDate, endDate) :
       ana' = [fn |-> "greenDays", environmentId |-> environmentId,
               startDate |-> startDate, endDate |-> endDate,
               rows |-> statusData,
               result |-> getGreenDaysAnalytics(statusData)]
  /\ chk' = NoCall
  /\ UNCHANGED <<bookings, nextId, client, metrics, dailyStatus, req, others>>

\* ---- a direct call of the resolver ----

CallCheckBookingConflicts(environmentId, startDate, endDate) ==
  /\ chk' = [called |-> TRUE, environmentId |-> environmentId,
             startDate |-> startDate, endDate |-> endDate,
             result |-> checkBookingConflicts(bookings, environmentId,
                                              startDate, endDate)]
  /\ ana' = NoAnalytics
  /\ UNCHANGED <<bookings, nextId, client, metrics, dailyStatus, req, others>>

\* ---- incidents ----

IncidentStatuses == {"open", "resolved"}

\* a nullable column holds {} for null and {x} for the value x
Null == {}

\* request bodies of POST /api/incidents, reduced to startTime and status
IncidentBodies ==
  [startTime : 0..MaxStart, status : IncidentStatuses \cup {Absent, Malformed}]

\* status is optional (the column defaults to 'open') and refined to the enum
incidentsInsertSchema(body) == body.status \in IncidentStatuses \cup {Absent}

\* the serial id of the next incident: incidents are never deleted
NextIncidentId(table) == Cardinality(table) + 1

\* db.insert(incidents).values(data).returning()
createIncident(table, data) ==
  table \cup {[id |-> NextIncidentId(table), startTime |-> data.startTime,
               endTime |-> Null,
               status |-> IF data.status = Absent THEN "open" ELSE data.status,
               recoveryTime |-> Null]}

\* the rows with the id: one or none
getIncidentById(table, id) == {i \in table : i.id = id}

MathTrunc(num, den) == IF num >= 0 THEN num \div den ELSE 0 - ((0 - num) \div den)

\* Math.round(num / den), den > 0: the nearest integer, a half rounded up
MathRound(num, den) == (2 * num + den) \div (2 * den)

RecoveryTime(startTime, endTime) == MathRound(endTime - startTime, TicksPerMinute)

\* set({status: 'resolved', endTime, recoveryTime, updatedAt}) where id
UpdateResolved(table, id, endTime, recoveryTime) ==
  {IF i.id = id
     THEN [i EXCEPT !.status = "resolved", !.endTime = {endTime},
                    !.recoveryTime = {recoveryTime}]
     ELSE i : i \in table}

\* storage.resolveIncident without a failure; the incident is stored
resolveIncident(table, id, endTime) ==
  LET incident == CHOOSE i \in getIncidentById(table, id) : TRUE
  IN UpdateResolved(table, id, endTime, RecoveryTime(incident.startTime, endTime))

IncidentRequests ==
  [op : {"POST incidents"}, id : {<<>>}, body : IncidentBodies, fail : 0..1]
    \cup [op : {"RESOLVE"}, id : IdParams, body : {NoData}, fail : 0..2]

\* a request of the incident routes reaches the server
ArriveIncidents(request) ==
  /\ request.op = "POST incidents" => Cardinality(incidents) < MaxIncidents
  /\ Arrive(request)

\* POST /api/incidents for the request in flight
HandlePostIncidents ==
  /\ req.op = "POST incidents"
  /\ client[1].pc = "idle"
  /\ IF ~incidentsInsertSchema(req.body)
       THEN /\ client' = [client EXCEPT ![1] = Response(400, {})]
            /\ UNCHANGED incidents
     ELSE IF req.fail = 1
       THEN /\ client' = [client EXCEPT ![1] = Response(500, {})]
            /\ UNCHANGED incidents
     ELSE /\ incidents' = createIncident(incidents, req.body)
          /\ client' = [client EXCEPT ![1] = Response(201, incidents' \ incidents)]
  /\ UNCHANGED <<bookings, nextId, chk, analytics, req, lst, now, users, form>>

\* if (incident.status === 'resolved')
ResolvedAlready(incident) == incident.status = "resolved"

\* PATCH /api/incidents/:id/resolve for the request in flight; fail = 1 is a
\* rejected getIncidentById of the handler, fail = 2 a rejected resolveIncident
HandleResolve ==
  /\ req.op = "RESOLVE"
  /\ client[1].pc = "idle"
  /\ LET id == parseInt(req.id)
         incident == getIncidentById(incidents, id.value)
         endTime == now
     IN IF id.isNaN
          THEN /\ client' = [client EXCEPT ![1] = Response(400, {})]
               /\ UNCHANGED incidents
        ELSE IF req.fail = 1
          THEN /\ client' = [client EXCEPT ![1] = Response(500, {})]
               /\ UNCHANGED incidents
        ELSE IF incident = {}
          THEN /\ client' = [client EXCEPT ![1] = Response(404, {})]
               /\ UNCHANGED incidents
        ELSE IF \E i \in incident : ResolvedAlready(i)
          THEN /\ client' = [client EXCEPT ![1] = Response(400, {})]
               /\ UNCHANGED incidents
        ELSE IF req.fail = 2
          THEN /\ client' = [client EXCEPT ![1] = Response(500, {})]
               /\ UNCHANGED incidents
        ELSE /\ incidents' = resolveIncident(incidents, id.value, endTime)
             /\ client' = [client EXCEPT ![1] =
                  Response(200, getIncidentById(incidents', id.value))]
  /\ UNCHANGED <<bookings, nextId, chk, analytics, req, lst, now, users, form>>

\* the handler up to its second await: parse, lookup, 404 and 400 branches,
\* endTime = new Date(); then resolveIncident is called
AfterStatusCheck(table, idParam, dbOk, time) ==
  LET id == parseInt(idParam)
      incident == getIncidentById(table, id.value)
  IN IF id.isNaN THEN Response(400, {})
     ELSE IF ~dbOk THEN Response(500, {})
     ELSE IF incident = {} THEN Response(404, {})
     ELSE IF \E i \in incident : ResolvedAlready(i) THEN Response(400, {})
     ELSE [pc |-> "reread", data |-> [id |-> id.value, endTime |-> time],
           code |-> 0, body |-> {}]

\* a resolve request arrives at client c's connection and runs to the await
\* of resolveIncident's own lookup
BeginResolve(c, idParam, dbOk) ==
  /\ client[c].pc \in {"idle", "done"}
  /\ client' = [client EXCEPT ![c] = AfterStatusCheck(incidents, idParam, dbOk, now)]
  /\ UNCHANGED <<bookings, nextId, chk, analytics, req, others>>

\* resolveIncident reads the incident again and computes recoveryTime
RereadResolve(c, dbOk) ==
  /\ client[c].pc = "reread"
  /\ LET incident == getIncidentById(incidents, client[c].data.id)
     IN client' = [client EXCEPT ![c] =
          IF ~dbOk \/ incident = {} THEN Response(500, {})
          ELSE [pc |-> "update",
                data |-> [id |-> client[c].data.id, endTime |-> client[c].data.endTime,
                          recoveryTime |->
                            RecoveryTime((CHOOSE i \in incident : TRUE).startTime,
                                         client[c].data.endTime)],
                code |-> 0, body |-> {}]]
  /\ UNCHANGED <<bookings, nextId, chk, analytics, req, others>>

\* the update of resolveIncident and the answer
FinishResolve(c, dbOk) ==
  /\ client[c].pc = "update"
  /\ IF ~dbOk
       THEN /\ client' = [client EXCEPT ![c] = Response(500, {})]
            /\ UNCHANGED incidents
       ELSE /\ incidents' = UpdateResolved(incidents, client[c].data.id,
                                           client[c].data.endTime,
                                           client[c].data.recoveryTime)
            /\ client' = [client EXCEPT ![c] =
                 Response(200, getIncidentById(incidents', client[c].data.id))]
  /\ UNCHANGED <<bookings, nextId, chk, analytics, req, lst, now, users, form>>

\* time passes
Tick ==
  /\ now < MaxNow
  /\ now' = now + 1
  /\ UNCHANGED <<bookings, nextId, client, chk, analytics, req, lst, incidents,
                 users, form>>

\* ---- the booking form ----

\* A Date is an instant of the form's clock; the local time of the browser is
\* the instant plus a fixed offset from UTC.

\* the values handleSubmit passes to onSubmit: the selects hold ids as strings,
\* the dates are any instants of the days chosen
FormValues ==
  [teamId : {<<Digits[DemoTeam]>>},
   environmentId : {<<Digits[environmentId]>> : environmentId \in EnvironmentIds},
   startDate : 0..(MaxFormDay * TicksPerDay - 1),
   endDate : 0..(MaxFormDay * TicksPerDay - 1)]

\* date.setHours(0, 0, 0, 0): local midnight of the local day of the date
StartOfDay(date, offset) ==
  ((date + offset) \div TicksPerDay) * TicksPerDay - offset

EndOfDayAtMidnight(date, offset) == StartOfDay(date, offset)

\* date.setHours(23, 59, 59, 999): the last instant of the local day
EndOfDay(date, offset) == StartOfDay(date, offset) + (TicksPerDay - 1)

\* date.toISOString(): the UTC day and the UTC time of day
toISOString(date) == [day |-> date \div TicksPerDay, time |-> date % TicksPerDay]

\* onSubmit up to mutate(bookingData): the request handed to the mutation, or
\* the toast and nothing sent
onSubmit(values, offset) ==
  LET startDateTime == StartOfDay(values.startDate, offset)
      endDateTime == EndOfDay(values.endDate, offset)
  IN IF endDateTime <= startDateTime
       THEN [pc |-> "toast", values |-> values, offset |-> offset, request |-> <<>>]
       ELSE [pc |-> "sent", values |-> values, offset |-> offset,
             request |->
               [teamId |-> parseInt(values.teamId).value,
                environmentId |-> parseInt(values.environmentId).value,
                userId |-> 1,
                startDate |-> toISOString(startDateTime),
                endDate |-> toISOString(endDateTime),
                configuration |-> StandardConfiguration,
                purpose |-> NoPurpose,
                status |-> "scheduled"]]

\* the user submits the open form
Submit ==
  /\ form.pc = "open"
  /\ form' = onSubmit(form.values, form.offset)
  /\ UNCHANGED <<bookings, nextId, client, chk, analytics, req, lst, incidents,
                 now, users>>

\* ---- users ----

Usernames == {"ann", "bob"}

Passwords == {"pw", "qw"}

\* request bodies of POST /api/users
UserBodies == [username : Usernames \cup {Absent}, password : Passwords]

\* createInsertSchema(users).pick({username, password}): both are required
insertUserSchema(body) == body.username # Absent

\* the rows with the username: one or none
getUserByUsername(table, username) == {u \in table : u.username = username}

UniqueViolationIgnored(table, data) == FALSE

\* username: text("username").notNull().unique(): the insert is rejected when
\* a row has the username
UniqueViolation(table, data) == getUserByUsername(table, data.username) # {}

\* the row db.insert(users).values(data).returning() stores; the serial id is
\* the next of a sequence that gives no value twice
NewUser(table, data) ==
  [id |-> Cardinality(table) + 1, username |-> data.username,
   password |-> data.password]

\* the handler up to its second await: parse, lookup, 409 branch
AfterLookup(table, body, dbOk) ==
  IF ~insertUserSchema(body) THEN Response(400, {})
  ELSE IF ~dbOk THEN Response(500, {})
  ELSE IF getUserByUsername(table, body.username) # {} THEN Response(409, {})
  ELSE [pc |-> "createUser", data |-> body, code |-> 0, body |-> {}]

\* a request arrives at client c's connection and runs to the await of the insert
BeginPostUsers(c, body, dbOk) ==
  /\ client[c].pc \in {"idle", "done"}
  /\ Cardinality(users) < MaxUsers
  /\ client' = [client EXCEPT ![c] = AfterLookup(users, body, dbOk)]
  /\ UNCHANGED <<bookings, nextId, chk, analytics, req, lst, incidents, now,
                 users, form>>

\* the insert of client c's request and its answer (without the password);
\* dbOk = FALSE is an insert rejected for another reason than the constraint
FinishPostUsers(c, dbOk) ==
  /\ client[c].pc = "createUser"
  /\ IF ~dbOk \/ UniqueViolation(users, client[c].data)
       THEN /\ client' = [client EXCEPT ![c] = Response(500, {})]
            /\ UNCHANGED users
       ELSE LET newUser == NewUser(users, client[c].data)
            IN /\ users' = users \cup {newUser}
               /\ client' = [client EXCEPT ![c] =
                    Response(201, {[id |-> newUser.id, username |-> newUser.username]})]
  /\ UNCHANGED <<bookings, nextId, chk, analytics, req, lst, incidents, now, form>>

\* ---- specifications ----

\* no listing made, no incident, no user, the form not opened
NoListing ==
  [called |-> FALSE, environmentId |-> 0, teamId |-> 0, status |-> Absent,
   startDate |-> 0, endDate |-> 0, result |-> {}]

NoForm == [pc |-> "closed", values |-> <<>>, offset |-> 0, request |-> <<>>]

InitOthers ==
  /\ lst = NoListing
  /\ incidents = {}
  /\ now = 0
  /\ users = {}
  /\ form = NoForm

Init ==
  /\ bookings = {}
  /\ nextId = 1
  /\ client = [c \in Clients |-> Idle]
  /\ chk = NoCall
  /\ metrics = {}
  /\ dailyStatus = {}
  /\ ana = NoAnalytics
  /\ req = NoRequest
  /\ InitOthers

Next ==
  \/ \E c \in Clients, body \in RaceBodies, dbOk \in BOOLEAN : BeginPost(c, body, dbOk)
  \/ \E c \in Clients, dbOk \in BOOLEAN : FinishPost(c, dbOk)

Spec == Init /\ [][Next]_vars

NextSerial ==
  \/ \E body \in Bodies, dbOk1 \in BOOLEAN, dbOk2 \in BOOLEAN :
       PostBookings(body, dbOk1, dbOk2)
  \/ \E environmentId \in EnvironmentIds, startDate \in Instants, endDate \in Instants :
       CallCheckBookingConflicts(environmentId, startDate, endDate)

SpecSerial == Init /\ [][NextSerial]_vars

\* the table under a direct call: empty or one row, any row the schema admits.
\* The where clause is evaluated row by row, so one row decides membership;
\* every such table is reachable (POST accepts every status and pair of dates).
InitResolver ==
  /\ \/ bookings = {}
     \/ \E row \in Rows({1}) : bookings = {row}
  /\ nextId = Cardinality(bookings) + 1
  /\ client = [c \in Clients |-> Idle]
  /\ chk = NoCall
  /\ metrics = {}
  /\ dailyStatus = {}
  /\ ana = NoAnalytics
  /\ req = NoRequest
  /\ InitOthers

NextResolver ==
  \E environmentId \in EnvironmentIds, startDate \in Instants, endDate \in Instants :
    CallCheckBookingConflicts(environmentId, startDate, endDate)

SpecResolver == InitResolver /\ [][NextResolver]_vars

\* ---- POST /api/metrics ----

\* request bodies: the columns of a metric, environmentId possibly missing
MetricBodies ==
  {[environmentId |-> e, date |-> d, uptime |-> MetricSamples[k].uptime,
    mttr |-> MetricSamples[k].mttr, mtbf |-> MetricSamples[k].mtbf,
    resourceUtilization |-> MetricSamples[k].resourceUtilization,
    occupancy |-> MetricSamples[k].occupancy] :
     e \in EnvironmentIds \cup {Omitted}, d \in RecordDates, k \in DOMAIN MetricSamples}

\* createInsertSchema(metrics): environmentId is a required column
metricsInsertSchema(body) == Given(body.environmentId)

createMetricReplacing(table, data, id) ==
  {row \in table :
     ~(row.environmentId = data.environmentId /\ row.date = data.date)}
    \cup {MetricRow(id, data.environmentId, data.date, data)}

\* db.insert(metrics).values(data).returning()
createMetric(table, data, id) ==
  table \cup {MetricRow(id, data.environmentId, data.date, data)}

\* the serial id of the next metric: no value of the sequence is given twice
NextMetricId(table) == Cardinality(table) + 1

\* the whole handler; dbOk = FALSE is a rejected insert
PostMetrics(body, dbOk) ==
  /\ Cardinality(metrics) < MaxRecords
  /\ IF ~metricsInsertSchema(body)
       THEN /\ client' = [client EXCEPT ![1] = Response(400, {})]
            /\ UNCHANGED metrics
     ELSE IF ~dbOk
       THEN /\ client' = [client EXCEPT ![1] = Response(500, {})]
            /\ UNCHANGED metrics
     ELSE /\ metrics' = createMetric(metrics, body, NextMetricId(metrics))
          /\ client' = [client EXCEPT ![1] =
               Response(201, metrics' \ metrics)]
  /\ UNCHANGED <<bookings, nextId, chk, dailyStatus, ana, req, others>>

\* ---- POST /api/daily-status ----

\* request bodies, reduced to the columns the analytics read
DailyStatusBodies ==
  [environmentId : EnvironmentIds \cup {Omitted}, date : RecordDates,
   status : {DayStatuses[k] : k \in DOMAIN DayStatuses} \cup {Absent, Malformed}]

dailyStatusInsertSchemaUnrefined(body) ==
  Given(body.environmentId) /\ body.status # Absent

\* createInsertSchema(dailyStatus, {status: refine(...)}): environmentId and
\* status are required columns, status is one of the three values
dailyStatusInsertSchema(body) ==
  /\ Given(body.environmentId)
  /\ \E k \in DOMAIN DayStatuses : body.status = DayStatuses[k]

\* db.insert(dailyStatus).values(data).returning(); the serial id is the next
\* of a sequence that gives no value twice
createDailyStatus(table, data) ==
  table \cup {DailyStatusRow(Cardinality(table) + 1, data.environmentId, data.date,
                             data.status)}

\* the whole handler; dbOk = FALSE is a rejected insert
PostDailyStatus(body, dbOk) ==
  /\ Cardinality(dailyStatus) < MaxRecords
  /\ IF ~dailyStatusInsertSchema(body)
       THEN /\ client' = [client EXCEPT ![1] = Response(400, {})]
            /\ UNCHANGED dailyStatus
     ELSE IF ~dbOk
       THEN /\ client' = [client EXCEPT ![1] = Response(500, {})]
            /\ UNCHANGED dailyStatus
     ELSE /\ dailyStatus' = createDailyStatus(dailyStatus, body)
          /\ client' = [client EXCEPT ![1] =
               Response(201, dailyStatus' \ dailyStatus)]
  /\ UNCHANGED <<bookings, nextId, chk, metrics, ana, req, others>>

\* ---- tables the analytics functions are called on ----

\* (environment, date, index of the column values) of one record
Entries(values) == EnvironmentIds \X RecordDates \X DOMAIN values

Rank(entry, values) ==
  ((entry[1] - 1) * MaxRecordDay + (entry[2] - 1)) * Len(values) + entry[3]

\* n records in one order of insertion per choice of contents; the queries
\* order by date and never read the id
Fillings(n, values) ==
  {f \in [1..n -> Entries(values)] :
     \A i \in 1..n, j \in 1..n : i < j => Rank(f[i], values) <= Rank(f[j], values)}

MetricTable(f) ==
  {MetricRow(i, f[i][1], f[i][2], MetricSamples[f[i][3]]) : i \in DOMAIN f}

DailyStatusTable(f) ==
  {DailyStatusRow(i, f[i][1], f[i][2], DayStatuses[f[i][3]]) : i \in DOMAIN f}

\* one table filled, the other two empty: each function reads one table only
InitAnalytics ==
  /\ \/ /\ \E n \in 0..MaxRecords : \E f \in Fillings(n, MetricSamples) :
            metrics = MetricTable(f)
        /\ dailyStatus = {}
        /\ bookings = {}
     \/ /\ \E n \in 0..MaxRecords : \E f \in Fillings(n, DayStatuses) :
            dailyStatus = DailyStatusTable(f)
        /\ metrics = {}
        /\ bookings = {}
     \/ /\ \E row \in Rows({1}) : bookings = {row}
        /\ metrics = {}
        /\ dailyStatus = {}
  /\ nextId = Cardinality(bookings) + 1
  /\ client = [c \in Clients |-> Idle]
  /\ chk = NoCall
  /\ ana = NoAnalytics
  /\ req = NoRequest
  /\ InitOthers

\* no call observed yet
Unobserved == ana.fn = "none" /\ ~chk.called

\* one observed call per run, on every table and with every argument
NextAnalytics ==
  \/ \E environmentId \in EnvironmentIds \cup {Omitted},
        startDate \in RecordDates \cup {Omitted},
        endDate \in RecordDates \cup {Omitted} :
       Unobserved /\ CallHealthAnalytics(environmentId, startDate, endDate)
  \/ \E environmentId \in EnvironmentIds \cup {Omitted},
        startDate \in RecordDates \cup {Omitted},
        endDate \in RecordDates \cup {Omitted} :
       Unobserved /\ CallGreenDaysAnalytics(environmentId, startDate, endDate)
  \/ \E environmentId \in EnvironmentIds, startDate \in Instants, endDate \in Instants :
       Unobserved /\ CallCheckBookingConflicts(environmentId, startDate, endDate)

SpecAnalytics == InitAnalytics /\ [][NextAnalytics]_vars

\* the metrics table filled through POST /api/metrics, then read once
NextMetrics ==
  \/ \E body \in MetricBodies, dbOk \in BOOLEAN :
       Unobserved /\ PostMetrics(body, dbOk)
  \/ \E environmentId \in EnvironmentIds \cup {Omitted},
        startDate \in RecordDates \cup {Omitted},
        endDate \in RecordDates \cup {Omitted} :
       Unobserved /\ CallHealthAnalytics(environmentId, startDate, endDate)

SpecMetrics == Init /\ [][NextMetrics]_vars

\* the daily_status table filled through POST /api/daily-status, then read once
NextDailyStatus ==
  \/ \E body \in DailyStatusBodies, dbOk \in BOOLEAN :
       Unobserved /\ PostDailyStatus(body, dbOk)
  \/ \E environmentId \in EnvironmentIds \cup {Omitted},
        startDate \in RecordDates \cup {Omitted},
        endDate \in RecordDates \cup {Omitted} :
       Unobserved /\ CallGreenDaysAnalytics(environmentId, startDate, endDate)

SpecDailyStatus == Init /\ [][NextDailyStatus]_vars

\* the booking routes, one request at a time
NextBookings ==
  \/ \E request \in Requests : Arrive(request)
  \/ HandlePostBookings
  \/ HandlePatchBookings
  \/ HandleDeleteBookings
  \/ Close

SpecBookings == Init /\ [][NextBookings]_vars

\* a table with at most one booking, of any status and any pair of dates
InitScheduled ==
  /\ \/ bookings = {}
     \/ \E row \in Rows({1}) : bookings = {row}
  /\ nextId = Cardinality(bookings) + 1
  /\ client = [c \in Clients |-> Idle]
  /\ chk = NoCall
  /\ metrics = {}
  /\ dailyStatus = {}
  /\ ana = NoAnalytics
  /\ req = NoRequest
  /\ InitOthers

\* POST requests of the form and DELETE requests, one at a time
NextScheduled ==
  \/ \E request \in ScheduledRequests : Arrive(request)
  \/ HandlePostBookings
  \/ HandleDeleteBookings
  \/ Close

SpecScheduled == InitScheduled /\ [][NextScheduled]_vars

\* the tables POST /api/bookings builds from the bodies of the booking routes
PostedTables ==
  {{NewBooking(f[i], i) : i \in DOMAIN f} :
     f \in UNION {[1..n -> {body \in CrudBodies : bookingsInsertSchema(body)}] :
                    n \in 0..MaxBookings}}

InitPatch ==
  /\ bookings \in PostedTables
  /\ nextId = Cardinality(bookings) + 1
  /\ client = [c \in Clients |-> Idle]
  /\ chk = NoCall
  /\ metrics = {}
  /\ dailyStatus = {}
  /\ ana = NoAnalytics
  /\ req = NoRequest
  /\ InitOthers

\* one PATCH request with any body, on every such table
NextPatch ==
  \/ \E request \in WidePatchRequests : Arrive(request)
  \/ HandlePatchBookings

SpecPatch == InitPatch /\ [][NextPatch]_vars

\* the table filled through POST /api/bookings, then listed once
NextListing ==
  \/ \E body \in RaceBodies, dbOk1 \in BOOLEAN, dbOk2 \in BOOLEAN :
       ~lst.called /\ PostBookings(body, dbOk1, dbOk2)
  \/ \E environmentId \in EnvironmentIds \cup {0}, teamId \in {0, DemoTeam},
        status \in {Absent, "scheduled"},
        startDate \in 0..MaxRaceDay, endDate \in 0..MaxRaceDay :
       ~lst.called /\ CallGetBookings(environmentId, teamId, status, startDate, endDate)

SpecListing == Init /\ [][NextListing]_vars

\* the incident routes, one request at a time, while time passes
NextIncidents ==
  \/ \E request \in IncidentRequests : ArriveIncidents(request)
  \/ HandlePostIncidents
  \/ HandleResolve
  \/ Close
  \/ Tick

SpecIncidents == Init /\ [][NextIncidents]_vars

\* the form filled in with valid values, in a browser of any offset from UTC
InitForm ==
  /\ bookings = {}
  /\ nextId = 1
  /\ client = [c \in Clients |-> Idle]
  /\ chk = NoCall
  /\ metrics = {}
  /\ dailyStatus = {}
  /\ ana = NoAnalytics
  /\ req = NoRequest
  /\ lst = NoListing
  /\ incidents = {}
  /\ now = 0
  /\ users = {}
  /\ \E values \in FormValues, offset \in (0 - MaxOffset)..MaxOffset :
       form = [pc |-> "open", values |-> values, offset |-> offset, request |-> <<>>]

SpecForm == InitForm /\ [][Submit]_vars

\* concurrent POST /api/users requests, split at the await of the insert
NextUsers ==
  \/ \E c \in Clients, body \in UserBodies, dbOk \in BOOLEAN :
       BeginPostUsers(c, body, dbOk)
  \/ \E c \in Clients, dbOk \in BOOLEAN : FinishPostUsers(c, dbOk)

SpecUsers == Init /\ [][NextUsers]_vars

\* incidents as POST /api/incidents stores them, the clock one instant before
\* its last
InitResolveRace ==
  /\ bookings = {}
  /\ nextId = 1
  /\ client = [c \in Clients |-> Idle]
  /\ chk = NoCall
  /\ metrics = {}
  /\ dailyStatus = {}
  /\ ana = NoAnalytics
  /\ req = NoRequest
  /\ lst = NoListing
  /\ \E first \in IncidentBodies, second \in IncidentBodies :
       /\ incidentsInsertSchema(first)
       /\ incidentsInsertSchema(second)
       /\ incidents \in {createIncident({}, first),
                         createIncident(createIncident({}, first), second)}
  /\ now = MaxNow - 1
  /\ users = {}
  /\ form = NoForm

\* concurrent resolve requests, split at their awaits, while time passes
NextResolveRace ==
  \/ \E c \in Clients, idParam \in IdParams, dbOk \in BOOLEAN :
       BeginResolve(c, idParam, dbOk)
  \/ \E c \in Clients, dbOk \in BOOLEAN : RereadResolve(c, dbOk)
  \/ \E c \in Clients, dbOk \in BOOLEAN : FinishResolve(c, dbOk)
  \/ Tick

SpecResolveRace == InitResolveRace /\ [][NextResolveRace]_vars

\* ---- properties ----

\* the general test for two closed intervals
Intersects(aStart, aEnd, bStart, bEnd) == aStart <= bEnd /\ aEnd >= bStart

\* two rows occupy a common instant
SharesInstant(a, b) ==
  \E t \in Instants :
    /\ a.startDate <= t /\ t <= a.endDate
    /\ b.startDate <= t /\ t <= b.endDate

\* C1: under serial POST /api/bookings requests no two stored non-cancelled
\* bookings of one environment have overlapping closed intervals.
C1_NoDoubleBooking ==
  \A a \in bookings, b \in bookings :
    (/\ a.id # b.id
     /\ a.environmentId = b.environmentId
     /\ a.status # "cancelled"
     /\ b.status # "cancelled") => ~SharesInstant(a, b)

\* the request of client c, still waiting for its insert, would now be refused
StaleCheck(c) ==
  /\ client[c].pc = "create"
  /\ checkBookingConflicts(bookings, client[c].data.environmentId,
                           client[c].data.startDate, client[c].data.endDate) # {}

\* C2: a request that passed its conflict check before an overlapping scheduled
\* booking was stored still inserts and is answered 201 (only a storage failure,
\* answered 500, stops it): the new row is stored next to a scheduled booking of
\* the same environment it conflicts with.
C2_RaceInsertsBoth ==
  [][\A c \in Clients :
       (StaleCheck(c) /\ client'[c].pc = "done" /\ client'[c].code # 500) =>
         /\ client'[c].code = 201
         /\ bookings' = bookings \cup {NewBooking(client[c].data, nextId)}
         /\ NewBooking(client[c].data, nextId) \notin bookings
         /\ \E b \in bookings :
              /\ b.status = "scheduled"
              /\ b.environmentId = client[c].data.environmentId
              /\ OverlapCases(client[c].data.startDate, client[c].data.endDate,
                              b.startDate, b.endDate)]_vars

\* C2 witness: both racing requests were answered 201 and two scheduled bookings
\* of one environment with overlapping intervals are stored.
C2_Witness ==
  /\ \A c \in {1, 2} : client[c].pc = "done" /\ client[c].code = 201
  /\ \E a \in bookings, b \in bookings :
       /\ a.id # b.id
       /\ a.environmentId = b.environmentId
       /\ a.status = "scheduled" /\ b.status = "scheduled"
       /\ a.startDate <= a.endDate /\ b.startDate <= b.endDate
       /\ SharesInstant(a, b)
       /\ a \in client[1].body /\ b \in client[2].body

\* C3: for a proposed interval [s, e] with s <= e and a scheduled booking of the
\* queried environment with interval [bs, be], bs <= be, the booking is returned
\* exactly when s <= be and e >= bs.
C3_OverlapRule ==
  (chk.called /\ chk.startDate <= chk.endDate) =>
    \A b \in bookings :
      (/\ b.environmentId = chk.environmentId
       /\ b.status = "scheduled"
       /\ b.startDate <= b.endDate) =>
        ((b \in chk.result) <=>
           Intersects(chk.startDate, chk.endDate, b.startDate, b.endDate))

\* C3 witness: a proposed interval that strictly contains the stored one is flagged.
C3_Witness ==
  /\ chk.called
  /\ \E b \in chk.result :
       /\ b \in bookings
       /\ chk.startDate < b.startDate /\ b.startDate <= b.endDate
       /\ b.endDate < chk.endDate

\* C4: a proposed interval that touches a scheduled booking of the queried
\* environment in an endpoint (proposed start = existing end, or proposed end =
\* existing start) is returned as a conflict.
C4_BoundaryTouch ==
  (chk.called /\ chk.startDate <= chk.endDate) =>
    \A b \in bookings :
      (/\ b.environmentId = chk.environmentId
       /\ b.status = "scheduled"
       /\ b.startDate <= b.endDate
       /\ (chk.startDate = b.endDate \/ chk.endDate = b.startDate)) =>
        b \in chk.result

\* C4 witness: the proposed interval shares exactly the existing end instant.
C4_Witness ==
  /\ chk.called
  /\ chk.startDate < chk.endDate
  /\ \E b \in chk.result :
       /\ b \in bookings
       /\ b.startDate < b.endDate
       /\ chk.startDate = b.endDate

\* C5: every booking checkBookingConflicts returns has the queried environment
\* and status 'scheduled', and every 409 of POST /api/bookings carries a
\* non-empty list of scheduled bookings of the requested environment.
C5_StatusEnvFilter ==
  /\ chk.called =>
       \A b \in chk.result :
         b.environmentId = chk.environmentId /\ b.status = "scheduled"
  /\ \A c \in Clients :
       (client[c].pc = "done" /\ client[c].code = 409) =>
         /\ client[c].body # {}
         /\ \A b \in client[c].body :
              /\ b.environmentId = client[c].data.environmentId
              /\ b.status = "scheduled"

\* C5 witness: an active, completed or cancelled booking of the queried
\* environment intersects the proposed interval and the result is empty.
C5_Witness ==
  /\ chk.called
  /\ chk.result = {}
  /\ chk.startDate <= chk.endDate
  /\ \E b \in bookings :
       /\ b.environmentId = chk.environmentId
       /\ b.status \in {"active", "completed", "cancelled"}
       /\ b.startDate <= b.endDate
       /\ Intersects(chk.startDate, chk.endDate, b.startDate, b.endDate)
  /\ \E b \in bookings :
       /\ b.environmentId # chk.environmentId
       /\ b.status = "scheduled"
       /\ b.startDate <= b.endDate
       /\ Intersects(chk.startDate, chk.endDate, b.startDate, b.endDate)

\* the stored booking b proposed against a table that holds only the proposed
\* interval of the call
Swapped(b) ==
  LET a == [b EXCEPT !.startDate = chk.startDate, !.endDate = chk.endDate]
  IN a \in checkBookingConflicts({a}, b.environmentId, b.startDate, b.endDate)

\* C6: for intervals A and B (start <= end each), B is returned when A is
\* proposed exactly when A is returned when B is proposed.
C6_Symmetry ==
  (chk.called /\ chk.startDate <= chk.endDate) =>
    \A b \in bookings :
      (/\ b.environmentId = chk.environmentId
       /\ b.status = "scheduled"
       /\ b.startDate <= b.endDate) =>
        ((b \in chk.result) <=> Swapped(b))

\* C6 witness: the proposed interval ends inside the stored one without
\* starting in it, and the stored booking is flagged.
C6_Witness ==
  /\ chk.called
  /\ \E b \in chk.result :
       /\ b \in bookings
       /\ chk.startDate < b.startDate
       /\ b.startDate <= chk.endDate
       /\ chk.endDate < b.endDate

\* C7: a stored scheduled booking is not in the result of
\* checkBookingConflicts called with its own environment and dates.
C7_NoSelfConflict ==
  chk.called =>
    \A b \in bookings :
      (/\ b.status = "scheduled"
       /\ b.environmentId = chk.environmentId
       /\ b.startDate = chk.startDate
       /\ b.endDate = chk.endDate) => b \notin chk.result

\* the conflict list of the request r against the table as it is
ConflictsNow(r) ==
  checkBookingConflicts(bookings, r.data.environmentId, r.data.startDate,
                        r.data.endDate)

\* C8: a row is inserted only by a request whose own conflict check returned
\* an empty list; a non-empty list is answered 409 with the conflicts as body
\* and the table unchanged; an empty list sends the request on to
\* createBooking, whose return stores the row and answers 201.
C8_ConflictGate ==
  [][/\ \A c \in Clients :
          LET before == client[c]
              after == client'[c]
          IN /\ (before.pc # "create" /\ after.pc = "create") =>
                  /\ ConflictsNow(after) = {}
                  /\ bookings' = bookings
             /\ (after # before /\ after.pc = "done" /\ after.code = 409) =>
                  /\ before.pc # "create"
                  /\ ConflictsNow(after) # {}
                  /\ after.body = ConflictsNow(after)
                  /\ bookings' = bookings
             /\ (before.pc = "create" /\ after.pc = "done") =>
                  \/ /\ after.code = 201
                     /\ after.body = {NewBooking(before.data, nextId)}
                     /\ bookings' = bookings \cup {NewBooking(before.data, nextId)}
                  \/ /\ after.code = 500
                     /\ bookings' = bookings
     /\ bookings' # bookings =>
          \E c \in Clients :
            /\ client[c].pc = "create"
            /\ client'[c].code = 201
            /\ bookings' \ bookings = client'[c].body]_vars

\* C8 witness: one request was refused with 409 and a non-empty conflict list,
\* another was accepted with 201, and only the accepted row was added.
C8_Witness ==
  \E c \in Clients, d \in Clients :
    /\ client[c].pc = "done" /\ client[c].code = 409 /\ client[c].body # {}
    /\ client[d].pc = "done" /\ client[d].code = 201
    /\ client[c].body = client[d].body
    /\ bookings = client[d].body

\* C9: every row stored by POST /api/bookings has status 'scheduled'.
C9_CreatedScheduled == \A b \in bookings : b.status = "scheduled"

\* C10: every row stored by POST /api/bookings has endDate strictly later
\* than startDate.
C10_IntervalValid == \A b \in bookings : b.endDate > b.startDate

\* ---- properties of the analytics functions ----

\* the rows of a sequence, as a set
Range(s) == {s[i] : i \in DOMAIN s}

\* C11: a call of checkBookingConflicts, getEnvironmentHealthAnalytics or
\* getGreenDaysAnalytics leaves every stored booking, metric and daily status
\* record, the id sequence and every response as they were, so no later
\* operation can tell that the call was made.
C11_ReadOnly ==
  [][(chk'.called \/ ana'.fn # "none") =>
       /\ bookings' = bookings
       /\ metrics' = metrics
       /\ dailyStatus' = dailyStatus
       /\ nextId' = nextId
       /\ client' = client]_vars

\* C11 witness: getGreenDaysAnalytics was called on a full table and read
\* every row of it.
C11_Witness ==
  /\ ana.fn = "greenDays"
  /\ Cardinality(dailyStatus) = MaxRecords
  /\ Range(ana.rows) = dailyStatus

\* C12: when no record passes the filters, the health summary is 0 in all five
\* averages and the green-day summary is 0 in its four counts and in the
\* percentage; the result is a number in every field.
C12_EmptyIsZero ==
  (ana.fn # "none" /\ Len(ana.rows) = 0) =>
    /\ ana.fn = "health" =>
         /\ ana.result.averageUptime = Zero
         /\ ana.result.averageMTTR = Zero
         /\ ana.result.averageMTBF = Zero
         /\ ana.result.averageResourceUtilization = Zero
         /\ ana.result.averageOccupancy = Zero
    /\ ana.fn = "greenDays" =>
         /\ ana.result.totalDays = 0
         /\ ana.result.greenDays = 0
         /\ ana.result.yellowDays = 0
         /\ ana.result.redDays = 0
         /\ ana.result.greenDaysPercentage = Zero

\* C12 witness: the metrics table holds records and the filters of the call
\* let none of them through.
C12_Witness ==
  /\ ana.fn = "health"
  /\ Len(ana.rows) = 0
  /\ Cardinality(metrics) = MaxRecords
  /\ ana.result = [averageUptime |-> Zero, averageMTTR |-> Zero, averageMTBF |-> Zero,
                   averageResourceUtilization |-> Zero, averageOccupancy |-> Zero]

RECURSIVE SumUpTo(_, _)
\* values[1] + ... + values[n], added one by one to 0
SumUpTo(values, n) ==
  IF n = 0 THEN Zero ELSE FAdd(SumUpTo(values, n - 1), values[n])

\* the sum of all values divided by their count
MeanOf(values) == FDiv(SumUpTo(values, Len(values)), FromInt(Len(values)))

RECURSIVE IntSum(_, _)
IntSum(ints, n) == IF n = 0 THEN 0 ELSE IntSum(ints, n - 1) + ints[n]

\* whole numbers whose sum is a multiple of their count: the mean is the
\* exact quotient
WholeMean(ints, mean) ==
  IntSum(ints, Len(ints)) % Len(ints) = 0 =>
    mean = FromInt(IntSum(ints, Len(ints)) \div Len(ints))

\* the same for a decimal column, given in hundredths
WholeDecimalMean(hundredths, mean) ==
  (\A i \in DOMAIN hundredths : hundredths[i] % 100 = 0) =>
    WholeMean([i \in DOMAIN hundredths |-> hundredths[i] \div 100], mean)

\* C13: for a non-empty list of fetched metric records each of averageUptime,
\* averageMTTR, averageMTBF, averageResourceUtilization and averageOccupancy is
\* the sum of its own column over all fetched records divided by the number of
\* records (98, 99 and 100 give 99).
C13_Averages ==
  (ana.fn = "health" /\ Len(ana.rows) > 0) =>
    LET rows == ana.rows
        uptime == [i \in DOMAIN rows |-> rows[i].uptime]
        mttr == [i \in DOMAIN rows |-> rows[i].mttr]
        mtbf == [i \in DOMAIN rows |-> rows[i].mtbf]
        resourceUtilization == [i \in DOMAIN rows |-> rows[i].resourceUtilization]
        occupancy == [i \in DOMAIN rows |-> rows[i].occupancy]
    IN /\ ana.result.averageUptime =
            MeanOf([i \in DOMAIN rows |-> Number(uptime[i])])
       /\ ana.result.averageMTTR = MeanOf([i \in DOMAIN rows |-> FromInt(mttr[i])])
       /\ ana.result.averageMTBF = MeanOf([i \in DOMAIN rows |-> FromInt(mtbf[i])])
       /\ ana.result.averageResourceUtilization =
            MeanOf([i \in DOMAIN rows |-> Number(resourceUtilization[i])])
       /\ ana.result.averageOccupancy =
            MeanOf([i \in DOMAIN rows |-> Number(occupancy[i])])
       /\ WholeDecimalMean(uptime, ana.result.averageUptime)
       /\ WholeMean(mttr, ana.result.averageMTTR)
       /\ WholeMean(mtbf, ana.result.averageMTBF)
       /\ WholeDecimalMean(resourceUtilization, ana.result.averageResourceUtilization)
       /\ WholeDecimalMean(occupancy, ana.result.averageOccupancy)

\* C13 witness: three records with resource utilization 98, 99 and 100, MTTR
\* 1, 2 and 3, MTBF 10, 20 and 60, occupancy 50, 25 and 75 are averaged to
\* 99, 2, 30 and 50.
C13_Witness ==
  /\ ana.fn = "health"
  /\ Len(ana.rows) = 3
  /\ {row.resourceUtilization : row \in Range(ana.rows)} = {9800, 9900, 10000}
  /\ {row.mttr : row \in Range(ana.rows)} = {1, 2, 3}
  /\ ana.result.averageResourceUtilization = FromInt(99)
  /\ ana.result.averageMTTR = FromInt(2)
  /\ ana.result.averageMTBF = FromInt(30)
  /\ ana.result.averageOccupancy = FromInt(50)

\* the fetched daily status records with the given status
DaysWith(status) == {row \in Range(ana.rows) : row.status = status}

\* C14: for a non-empty list of fetched daily status records totalDays is the
\* number of records, greenDays, yellowDays and redDays the numbers of records
\* with status 'healthy', 'issues' and 'down', and greenDaysPercentage is
\* greenDays / totalDays * 100.
C14_GreenDaySummary ==
  (ana.fn = "greenDays" /\ Len(ana.rows) > 0) =>
    LET r == ana.result
    IN /\ r.totalDays = Cardinality(Range(ana.rows))
       /\ r.greenDays = Cardinality(DaysWith("healthy"))
       /\ r.yellowDays = Cardinality(DaysWith("issues"))
       /\ r.redDays = Cardinality(DaysWith("down"))
       /\ r.greenDaysPercentage =
            FMul(FDiv(FromInt(r.greenDays), FromInt(r.totalDays)), FromInt(100))
       /\ r.greenDays = 0 => r.greenDaysPercentage = Zero
       /\ r.greenDays = r.totalDays => r.greenDaysPercentage = FromInt(100)
       /\ 2 * r.greenDays = r.totalDays => r.greenDaysPercentage = FromInt(50)

\* C14 witness: one healthy, one issues and one down day are summarised as
\* 3 days, 1 green, 1 yellow, 1 red.
C14_Witness ==
  /\ ana.fn = "greenDays"
  /\ ana.result.totalDays = 3
  /\ ana.result.greenDays = 1
  /\ ana.result.yellowDays = 1
  /\ ana.result.redDays = 1
  /\ {row.status : row \in Range(ana.rows)} = {"healthy", "issues", "down"}
  /\ ana.result.greenDaysPercentage = FMul(FDiv(FromInt(1), FromInt(3)), FromInt(100))

\* C15: the result of either analytics function is the same for every order
\* in which the fetched records are listed, so two calls on the same stored
\* data give the same result.
C15_OrderIndependent ==
  /\ ana.fn = "health" =>
       \A metricsData \in Listings(Range(ana.rows)) :
         getEnvironmentHealthAnalytics(metricsData) = ana.result
  /\ ana.fn = "greenDays" =>
       \A statusData \in Listings(Range(ana.rows)) :
         getGreenDaysAnalytics(statusData) = ana.result

\* the stored rows that satisfy every filter the call supplied
Selected(table) ==
  {row \in table :
     /\ Given(ana.environmentId) => row.environmentId = ana.environmentId
     /\ Given(ana.startDate) => row.date >= ana.startDate
     /\ Given(ana.endDate) => row.date <= ana.endDate}

\* C16: the records an analytics call aggregates are exactly the stored
\* records that satisfy every supplied filter at once: the environment when
\* given, date >= startDate when given, date <= endDate when given.
C16_FiltersCombine ==
  /\ ana.fn = "health" => Range(ana.rows) = Selected(metrics)
  /\ ana.fn = "greenDays" => Range(ana.rows) = Selected(dailyStatus)

\* C17: every step keeps every stored metric record as it is: records are
\* only added, each under an id no stored record has.
C17_MetricsAppendOnly ==
  [][/\ \A row \in metrics : row \in metrics'
     /\ \A new \in metrics' \ metrics : \A row \in metrics : new.id # row.id]_vars

\* C17 witness: POST /api/metrics stored a second record for an environment
\* and date that already had one, and both are in the table.
C17_Witness ==
  /\ client[1].pc = "done" /\ client[1].code = 201
  /\ Cardinality(metrics) = MaxRecords
  /\ \E a \in metrics, b \in client[1].body :
       /\ b \in metrics
       /\ a.id < b.id
       /\ a.environmentId = b.environmentId /\ a.date = b.date
       /\ a.uptime # b.uptime

\* ---- properties of the booking routes ----

\* the step in which the handler of the request in flight answers
Answers(op) == req.op = op /\ client[1].pc = "idle" /\ client'[1].pc = "done"

\* the status of the request in flight is one of the four values or missing
StatusAccepted ==
  req.body.status \in {"scheduled", "active", "completed", "cancelled", Absent}

\* C18: POST /api/bookings answers 400 to a body that fails validation and 500
\* to a storage failure of checkBookingConflicts or createBooking; neither adds
\* a booking or changes the table; a conflict found by the check is answered
\* 409, never 500.
C18_PostFailures ==
  [][Answers("POST") =>
       LET code == client'[1].code
           conflicts == checkBookingConflicts(bookings, req.body.environmentId,
                                              req.body.startDate, req.body.endDate)
       IN /\ ~StatusAccepted => code = 400
          /\ (StatusAccepted /\ req.fail = 1) => code = 500
          /\ (StatusAccepted /\ req.fail # 1 /\ conflicts # {}) => code = 409
          /\ (StatusAccepted /\ req.fail = 2 /\ conflicts = {}) => code = 500
          /\ (StatusAccepted /\ req.fail = 0 /\ conflicts = {}) => code = 201
          /\ code \in {400, 409, 500} => bookings' = bookings
          /\ code = 201 => Cardinality(bookings') = Cardinality(bookings) + 1]_vars

\* C18 witness: the insert of a valid request without conflicts was rejected,
\* the answer is 500 and the table is as it was, with one booking.
C18_Witness ==
  /\ req.op = "POST" /\ req.fail = 2
  /\ req.body.status = "scheduled"
  /\ client[1].pc = "done" /\ client[1].code = 500
  /\ Cardinality(bookings) = 1
  /\ \A b \in bookings : b.environmentId # req.body.environmentId

\* the status of every stored booking is one of the four values
StatusInDomain ==
  \A b \in bookings : b.status \in {"scheduled", "active", "completed", "cancelled"}

\* the request in flight carries a status outside the four values
CarriesOtherStatus ==
  req.op \in {"POST", "PATCH"} /\ ~StatusAccepted

\* C19 as stated: every stored booking has one of the four statuses, and a
\* POST or PATCH request carrying any other status is answered 400 and
\* changes nothing.
C19_AsStated ==
  [][/\ StatusInDomain'
     /\ (CarriesOtherStatus /\ client[1].pc = "idle" /\ client'[1].pc = "done") =>
          /\ client'[1].code = 400
          /\ bookings' = bookings]_vars

\* C19: every stored booking has one of the four statuses; a POST or PATCH
\* request carrying any other status changes nothing and is answered 400,
\* except that PATCH answers 500 when the lookup of the booking fails and 404
\* when no booking has the id of the path.
C19_StatusDomain ==
  [][/\ StatusInDomain'
     /\ (CarriesOtherStatus /\ client[1].pc = "idle" /\ client'[1].pc = "done") =>
          LET code == client'[1].code
              id == parseInt(req.id)
              lookupFails == req.op = "PATCH" /\ ~id.isNaN /\ req.fail = 1
              unknown == /\ req.op = "PATCH" /\ ~id.isNaN /\ req.fail # 1
                         /\ \A b \in bookings : b.id # id.value
          IN /\ bookings' = bookings
             /\ lookupFails => code = 500
             /\ unknown => code = 404
             /\ (~lookupFails /\ ~unknown) => code = 400]_vars

\* C19 witness: a PATCH for a stored booking carried a status outside the four
\* values, was answered 400, and the booking still has its status.
C19_Witness ==
  /\ req.op = "PATCH" /\ req.body.status = Malformed
  /\ client[1].pc = "done" /\ client[1].code = 400
  /\ ~parseInt(req.id).isNaN
  /\ \E b \in bookings : b.id = parseInt(req.id).value /\ b.status = "active"

\* every character of the path parameter is a decimal digit
Numeric(s) == \A i \in DOMAIN s : IsDigit(s[i])

\* C20: without storage failure DELETE /api/bookings/:id for a stored id
\* removes exactly that booking and answers 204, for a numeric id that is not
\* stored answers 404 and for a non-numeric id 400, both leaving the table
\* unchanged; no other operation removes a booking, and a removed booking never
\* comes back (ids are not given twice).
C20_DeleteFrame ==
  [][/\ \A b \in bookings' : b.id < nextId'
     /\ (Answers("DELETE") /\ req.fail = 0) =>
         LET code == client'[1].code
             stored == Numeric(req.id) /\ \E b \in bookings : b.id = DecimalValue(req.id)
         IN /\ stored =>
                 /\ code = 204
                 /\ bookings' = {b \in bookings : b.id # DecimalValue(req.id)}
            /\ (Numeric(req.id) /\ ~stored) => code = 404 /\ bookings' = bookings
            /\ ~Numeric(req.id) => code = 400 /\ bookings' = bookings
     /\ (\E b \in bookings : \A a \in bookings' : a.id # b.id) => Answers("DELETE")
     /\ \A b \in bookings' : b.id >= nextId \/ \E a \in bookings : a.id = b.id
     /\ nextId' >= nextId]_vars

\* the closed intervals of two rows have an instant in common
CommonInstant(a, b) ==
  \E t \in 1..MaxSchedDay :
    /\ a.startDate <= t /\ t <= a.endDate
    /\ b.startDate <= t /\ t <= b.endDate

\* no two scheduled bookings of one environment overlap
ScheduledDisjoint(store) ==
  \A a \in store, b \in store :
    (/\ a.id # b.id
     /\ a.environmentId = b.environmentId
     /\ a.status = "scheduled"
     /\ b.status = "scheduled") => ~CommonInstant(a, b)

\* C21: from a store without two overlapping scheduled bookings of one
\* environment, POST /api/bookings requests with status 'scheduled' and
\* startDate < endDate, run one at a time and mixed with DELETE requests, never
\* lead to two stored scheduled bookings of one environment whose closed
\* intervals overlap.
C21_ScheduledDisjoint == ScheduledDisjoint(bookings)

\* C21 witness: a POST was answered 201 and its booking is stored next to a
\* scheduled booking of the same environment that ends the instant before it
\* starts.
C21_Witness ==
  /\ req.op = "POST"
  /\ client[1].pc = "done" /\ client[1].code = 201
  /\ \E a \in bookings, b \in client[1].body :
       /\ b \in bookings
       /\ a.id # b.id
       /\ a.environmentId = b.environmentId
       /\ a.status = "scheduled" /\ b.status = "scheduled"
       /\ a.startDate < a.endDate
       /\ a.endDate + 1 = b.startDate

\* row a is row b with at most status, configuration and purpose changed
SameBooking(a, b) ==
  /\ a.id = b.id
  /\ a.environmentId = b.environmentId
  /\ a.startDate = b.startDate
  /\ a.endDate = b.endDate
  /\ a.teamId = b.teamId
  /\ a.userId = b.userId

C23_DateRangeListing ==
  (lst.called /\ lst.startDate # 0 /\ lst.endDate # 0 /\ lst.startDate <= lst.endDate) =>
    lst.result =
      {b \in bookings :
         /\ lst.environmentId # 0 => b.environmentId = lst.environmentId
         /\ lst.teamId # 0 => b.teamId = lst.teamId
         /\ lst.status # Absent => b.status = lst.status
         /\ b.startDate <= lst.endDate
         /\ b.endDate >= lst.startDate}

\* twice the distance of n minutes from the time between two instants is at
\* most one minute: n is a nearest whole number of minutes
NearestMinutes(n, startTime, endTime) ==
  LET twice == 2 * (n * TicksPerMinute - (endTime - startTime))
  IN twice <= TicksPerMinute /\ 0 - twice <= TicksPerMinute

\* C24: without storage failure, PATCH /api/incidents/:id/resolve on a stored
\* open incident answers 200 and sets its status to 'resolved', its endTime to
\* the instant of the request and its recoveryTime to the number of minutes from
\* startTime to endTime rounded to the nearest integer, leaving its other
\* columns and every other incident as they are; on a resolved incident it
\* answers 400 and on an unknown id 404, both without any change.
C24_Resolve ==
  [][(Answers("RESOLVE") /\ req.fail = 0 /\ ~parseInt(req.id).isNaN) =>
       LET id == parseInt(req.id).value
           code == client'[1].code
       IN /\ \A i \in incidents :
               /\ i.id # id => i \in incidents'
               /\ (i.id = id /\ i.status = "resolved") =>
                    code = 400 /\ incidents' = incidents
               /\ (i.id = id /\ i.status = "open") =>
                    /\ code = 200
                    /\ \E r \in incidents' :
                         /\ r.id = id
                         /\ r.startTime = i.startTime
                         /\ r.status = "resolved"
                         /\ r.endTime = {now}
                         /\ \E n \in r.recoveryTime :
                              NearestMinutes(n, i.startTime, now)
                         /\ client'[1].body = {r}
          /\ Cardinality(incidents') = Cardinality(incidents)
          /\ (\A i \in incidents : i.id # id) =>
               code = 404 /\ incidents' = incidents]_vars

\* C24 witness: an open incident was resolved a minute and a half after its
\* start and has recoveryTime 2; a second incident is stored.
C24_Witness ==
  /\ req.op = "RESOLVE"
  /\ client[1].pc = "done" /\ client[1].code = 200
  /\ Cardinality(incidents) = 2
  /\ \E r \in client[1].body :
       /\ r \in incidents
       /\ r.status = "resolved"
       /\ r.endTime = {now}
       /\ now - r.startTime = TicksPerMinute + TicksPerMinute \div 2
       /\ r.recoveryTime = {2}

\* the local day of an instant
LocalDay(date) == (form.offset + date) \div TicksPerDay

\* the local time of day of an instant
LocalTime(date) == (form.offset + date) % TicksPerDay

\* the instant an ISO string names
Instant(iso) == iso.day * TicksPerDay + iso.time

\* C25: every request the booking form submits has status 'scheduled', a
\* startDate at 00:00:00.000 of the chosen start day, an endDate at
\* 23:59:59.999 of the chosen end day and an endDate after its startDate; the
\* form sends nothing when the end day is before the start day and sends a
\* one-day booking when both days are the same.
C25_FormOutput ==
  form.pc \in {"sent", "toast"} =>
    LET startDay == LocalDay(form.values.startDate)
        endDay == LocalDay(form.values.endDate)
    IN /\ form.pc = "sent" =>
            LET startDate == Instant(form.request.startDate)
                endDate == Instant(form.request.endDate)
            IN /\ form.request.status = "scheduled"
               /\ LocalDay(startDate) = startDay /\ LocalTime(startDate) = 0
               /\ LocalDay(endDate) = endDay
               /\ LocalTime(endDate) = TicksPerDay - 1
               /\ endDate > startDate
               /\ startDay = endDay => endDate - startDate = TicksPerDay - 1
       /\ endDay < startDay => form.pc = "toast"
       /\ endDay >= startDay => form.pc = "sent"

\* C25 witness: start and end were chosen on the same day, in a browser east
\* of UTC, and a booking from local midnight to the last instant of that day
\* was sent; its startDate is on the day before in UTC.
C25_Witness ==
  /\ form.pc = "sent"
  /\ form.offset > 0
  /\ LocalDay(form.values.startDate) = LocalDay(form.values.endDate)
  /\ form.values.endDate < form.values.startDate
  /\ form.request.status = "scheduled"
  /\ form.request.startDate.day + 1 = form.request.endDate.day
  /\ Instant(form.request.endDate) - Instant(form.request.startDate) = TicksPerDay - 1

\* C26: in every state reachable by POST, PATCH and DELETE booking requests
\* run one at a time, no two stored bookings with status 'scheduled' and the
\* same environment have overlapping closed intervals; a PATCH that sets a
\* status to 'scheduled' never puts a booking next to an overlapping one.
C26_StatusChangesKeepDisjoint ==
  \A a \in bookings, b \in bookings :
    (/\ a.id < b.id
     /\ a.environmentId = b.environmentId
     /\ a.status = "scheduled" /\ b.status = "scheduled") =>
      ~(\E t \in 1..MaxSchedDay :
          /\ a.startDate <= t /\ t <= a.endDate
          /\ b.startDate <= t /\ t <= b.endDate)

\* C27: every daily status record stored through POST /api/daily-status has
\* status 'healthy', 'issues' or 'down', and every result of
\* getGreenDaysAnalytics on such records has
\* greenDays + yellowDays + redDays = totalDays.
C27_CountsPartition ==
  /\ \A row \in dailyStatus : row.status \in {"healthy", "issues", "down"}
  /\ ana.fn = "greenDays" =>
       ana.result.greenDays + ana.result.yellowDays + ana.result.redDays
         = ana.result.totalDays

\* C27 witness: three posted records, two of them healthy days of one
\* environment and one a down day, were summarised as a whole.
C27_Witness ==
  /\ ana.fn = "greenDays"
  /\ client[1].pc = "done" /\ client[1].code = 201
  /\ Range(ana.rows) = dailyStatus
  /\ ana.result.totalDays = MaxRecords
  /\ ana.result.greenDays = 2
  /\ ana.result.redDays = 1
  /\ \E a \in dailyStatus, b \in dailyStatus :
       a.id # b.id /\ a.environmentId = b.environmentId /\ a.status = b.status

\* x <= y for two numbers
NotAbove(x, y) ==
  LET e0 == Smaller(x.e, y.e)
  IN x.m * 2^(x.e - e0) <= y.m * 2^(y.e - e0)

\* C28: every result of getGreenDaysAnalytics has 0 <= greenDays <= totalDays
\* and 0 <= greenDaysPercentage <= 100; the percentage is 100 exactly when
\* there is a record and every record is 'healthy', and 0 exactly when no
\* record is 'healthy'.
C28_PercentageBounds ==
  ana.fn = "greenDays" =>
    LET r == ana.result
        healthy == {i \in DOMAIN ana.rows : ana.rows[i].status = "healthy"}
    IN /\ 0 <= r.greenDays /\ r.greenDays <= r.totalDays
       /\ NotAbove(Zero, r.greenDaysPercentage)
       /\ NotAbove(r.greenDaysPercentage, FromInt(100))
       /\ r.greenDaysPercentage = FromInt(100) <=>
            (Len(ana.rows) > 0 /\ healthy = DOMAIN ana.rows)
       /\ r.greenDaysPercentage = Zero <=> healthy = {}

\* C28 witness: two of three days are healthy and the percentage lies strictly
\* between 50 and 100.
C28_Witness ==
  /\ ana.fn = "greenDays"
  /\ ana.result.totalDays = 3
  /\ ana.result.greenDays = 2
  /\ NotAbove(FromInt(50), ana.result.greenDaysPercentage)
  /\ NotAbove(ana.result.greenDaysPercentage, FromInt(100))
  /\ ana.result.greenDaysPercentage # FromInt(100)
  /\ ana.result.greenDaysPercentage # FromInt(50)

\* C29: under any interleaving of POST /api/users requests no two stored users
\* share a username; a request whose username exists when it is looked up is
\* answered 409 and inserts nothing; an insert whose username exists by then
\* (a second request passed the lookup before the first inserted) is rejected
\* and answered 500, so of two such requests at most one inserts.
C29_UniqueUsernames ==
  [][/\ \A u \in users', v \in users' : u.username = v.username => u = v
     /\ \A u \in users : u \in users'
     /\ \A c \in Clients :
          LET before == client[c]
              after == client'[c]
              taken == \E u \in users : u.username = after.data.username
          IN /\ (before.pc # "createUser" /\ after # before /\ after.pc = "done"
                   /\ after.code = 409) => users' = users
             /\ (before.pc # "createUser" /\ after.pc = "createUser") =>
                  ~taken /\ users' = users
             /\ (before.pc = "createUser" /\ after.pc = "done") =>
                  LET exists == \E u \in users : u.username = before.data.username
                  IN /\ exists => after.code = 500 /\ users' = users
                     /\ after.code = 201 =>
                          /\ ~exists
                          /\ Cardinality(users') = Cardinality(users) + 1
                          /\ \E u \in users' : u.username = before.data.username
                     /\ after.code \in {201, 500}]_vars

\* C29 witness: two requests for the same new username both passed the
\* lookup; the first has inserted and was answered 201, the second is at its
\* insert, which the constraint will reject.
C29_Witness ==
  /\ client[1].pc = "done" /\ client[1].code = 201
  /\ client[2].pc = "createUser"
  /\ Cardinality(users) = 1
  /\ \E u \in users, r \in client[1].body :
       /\ r.id = u.id
       /\ u.username = client[2].data.username
       /\ u.password # client[2].data.password

\* C30: under any interleaving of PATCH /api/incidents/:id/resolve requests,
\* an incident whose status is 'resolved' keeps its status, endTime and
\* recoveryTime in every later step.
C30_ResolutionFinal ==
  [][\A i \in incidents :
       i.status = "resolved" =>
         \E r \in incidents' :
           /\ r.id = i.id
           /\ r.status = i.status
           /\ r.endTime = i.endTime
           /\ r.recoveryTime = i.recoveryTime]_vars

====
